---- MODULE Spec2Model ----
(***************************************************************************)
(* Tool-calling orchestration loops of the TypeScript examples             *)
(* (adjustable-settings, video assistant, navigation) and the single-shot  *)
(* structured-output validators they rely on.                              *)
(*                                                                         *)
(* Numbers of the settings object are kept in tenths: 0.8 is 8, 2.0 is 20. *)
(* A text is a sequence of tokens; the empty text is <<>>.                 *)
(* The conversational model and the single-shot model are external: every  *)
(* reply they can give is drawn nondeterministically from a bounded set.   *)
(***************************************************************************)
EXTENDS Integers, Sequences, FiniteSets, TLC

\* ------------------------------------------------------------------ bounds
\* longest list of parts in one model response
MaxParts == 2
\* numeric values a single-shot reply may carry range over -MaxV..MaxV tenths
MaxV == 22
\* navigation loop: follow-up "Ok" messages the model is allowed to provoke
MaxOk == 6

\* ------------------------------------------------------- program constants
MAX_LOOPS == 5
FontMin == 8
FontMax == 20
VolMin == 0
VolMax == 10
RateMin == 5
RateMax == 20

\* --------------------------------------------------------------- JSON values
\* A JSON value as JavaScript sees it after JSON.parse, plus undefined (an
\* absent key) and NaN (what Math.min/Math.max give for a non-number).
JNum(k) == [t |-> "num", n |-> k]
JBool(b) == [t |-> "bool", n |-> IF b THEN 1 ELSE 0]
JStr == [t |-> "str", n |-> 0]
JNull == [t |-> "null", n |-> 0]
JUndef == [t |-> "undef", n |-> 0]
JNaN == [t |-> "nan", n |-> 0]

\* no value yet (an unassigned local, an unset field)
NoValue == [none |-> TRUE]

\* JavaScript ToNumber, as Math.min and Math.max apply it to an argument:
\* null is 0, true is 1 (10 tenths), false is 0, undefined and a
\* non-numeric string are NaN.
ToNumber(v) ==
  CASE v.t = "num" -> v
    [] v.t = "bool" -> JNum(10 * v.n)
    [] v.t = "null" -> JNum(0)
    [] OTHER -> JNaN

\* Math.min(a, v) for a number a: NaN when v coerces to NaN.
MathMin(a, v) ==
  LET x == ToNumber(v) IN
  IF x.t = "nan" THEN JNaN ELSE JNum(IF x.n < a THEN x.n ELSE a)

\* Math.max(a, v) for a number a: NaN when v coerces to NaN.
MathMax(a, v) ==
  LET x == ToNumber(v) IN
  IF x.t = "nan" THEN JNaN ELSE JNum(IF x.n > a THEN x.n ELSE a)

\* mutant: min and max are exchanged
ClampSwapped(lo, hi, v) == MathMin(lo, MathMax(hi, v))
\* mutant: the lower bound is not applied
ClampLoose(lo, hi, v) == MathMin(hi, v)
\* Math.max(lo, Math.min(hi, v)): the clamp written at each ranged setting.
Clamp(lo, hi, v) == MathMax(lo, MathMin(hi, v))

\* ------------------------------------------------------ single-shot replies
\* What model.generateContent can do inside a handler: throw (transport
\* failure) or return a raw text.  A raw text either is no JSON document
\* ("not-json", the empty text, a truncated document) or is the JSON text of
\* a value of some shape carrying the keyed fields f.
Throw(f0) == [st |-> "throw", kind |-> "none", shape |-> "none", f |-> f0]
NotJson(k, f0) == [st |-> "text", kind |-> k, shape |-> "none", f |-> f0]
JsonText(sh, f0) == [st |-> "text", kind |-> "json", shape |-> sh, f |-> f0]
NotJsonKinds == {"not-json", "empty", "truncated"}
\* generateContent returns, but the response carries no usable candidate
\* (blocked): the SDK's response.text() throws
Blocked(f0) == [st |-> "blocked", kind |-> "none", shape |-> "none", f |-> f0]

\* JSON.parse(responseText): a SyntaxError for a text that is no JSON
\* document, otherwise the value the text denotes.
JSONParse(raw) ==
  IF raw.kind = "json"
  THEN [ok |-> TRUE, shape |-> raw.shape, f |-> raw.f]
  ELSE [ok |-> FALSE, shape |-> "none", f |-> raw.f]

\* ------------------------------------------------------------ AppSettings
BoolKeys == {"darkMode", "notificationsEnabled", "reduceMotion",
             "autoPlayVideos", "highContrast"}
NumKeys == {"fontSizeFactor", "notificationVolume", "textToSpeechRate"}
SettingKeys == BoolKeys \cup NumKeys

\* the object get_current_app_settings builds
StoredSettings ==
  [k \in SettingKeys |->
     CASE k = "darkMode" -> JBool(FALSE)
       [] k = "fontSizeFactor" -> JNum(10)
       [] k = "notificationsEnabled" -> JBool(TRUE)
       [] k = "notificationVolume" -> JNum(7)
       [] k = "reduceMotion" -> JBool(FALSE)
       [] k = "autoPlayVideos" -> JBool(TRUE)
       [] k = "highContrast" -> JBool(FALSE)
       [] k = "textToSpeechRate" -> JNum(10)]

get_current_app_settings == StoredSettings

NoSettings == [k \in SettingKeys |-> JUndef]

RangeMin(k) ==
  CASE k = "fontSizeFactor" -> FontMin
    [] k = "notificationVolume" -> VolMin
    [] k = "textToSpeechRate" -> RateMin
RangeMax(k) ==
  CASE k = "fontSizeFactor" -> FontMax
    [] k = "notificationVolume" -> VolMax
    [] k = "textToSpeechRate" -> RateMax

\* The three clamping assignments on the parsed proposal; every other key
\* of the proposal is returned as parsed.
ValidateProposed(p) == [k \in SettingKeys |->
  IF k \in NumKeys THEN Clamp(RangeMin(k), RangeMax(k), p[k]) ELSE p[k]]

\* update_app_settings: the try block around the transactional call.  A
\* transport failure, a text that does not parse, and a parsed null or
\* primitive (reading or creating a property on it throws a TypeError in a
\* strict-mode module) all land in the catch block, which returns
\* currentSettings; a parsed object is clamped and returned.
\* mutant: the catch block returns freshly built default settings
update_app_settings_default(currentSettings, reply) ==
  IF reply.st = "text" /\ JSONParse(reply).ok /\ JSONParse(reply).shape = "object"
  THEN ValidateProposed(JSONParse(reply).f)
  ELSE StoredSettings
update_app_settings(currentSettings, reply) ==
  IF reply.st = "throw" THEN currentSettings
  ELSE LET parsed == JSONParse(reply) IN
       IF ~parsed.ok THEN currentSettings
       ELSE IF parsed.shape # "object" THEN currentSettings
       ELSE ValidateProposed(parsed.f)

\* mutant: the validated values are copied into currentSettings, which is
\* returned
update_app_settings_in_place(currentSettings, reply) ==
  IF reply.st = "text" /\ JSONParse(reply).ok /\ JSONParse(reply).shape = "object"
  THEN [currentSettings |-> ValidateProposed(JSONParse(reply).f),
        proposedSettings |-> JSONParse(reply).f,
        returned |-> "currentSettings"]
  ELSE [currentSettings |-> currentSettings, proposedSettings |-> NoSettings,
        returned |-> "currentSettings"]
\* the two objects update_app_settings works on, as they are when it returns,
\* and which of them it returns: the three clamped values are assigned to
\* fields of proposedSettings, the object JSON.parse created; currentSettings
\* is only read (prompt text, required keys) and is the object the catch
\* block returns
update_app_settings_objects(currentSettings, reply) ==
  IF reply.st = "text" /\ JSONParse(reply).ok /\ JSONParse(reply).shape = "object"
  THEN [currentSettings |-> currentSettings,
        proposedSettings |-> ValidateProposed(JSONParse(reply).f),
        returned |-> "proposedSettings"]
  ELSE [currentSettings |-> currentSettings, proposedSettings |-> NoSettings,
        returned |-> "currentSettings"]

\* ------------------------------------------------ conversational responses
\* One part of a model response: a text or a functionCall {name, args}.
NoArgs == [none |-> TRUE]
TextPart(x) == [k |-> "text", text |-> x, name |-> "", args |-> NoArgs]
CallPart(n, a) == [k |-> "fc", text |-> <<>>, name |-> n, args |-> a]
Texts == {<<"t1">>, <<"t2">>}

\* the user's query (after trim/default) and a rewording the model may pass
UserQuery == "q"
Queries == {UserQuery, "q-reworded"}
Timestamps == <<"0:05", "0:24">>

SettingsArgs == [userRequest : Queries, currentSettings : {StoredSettings}]
FindTsArgs == [userQuery : Queries, hasTs : {FALSE}, relevantTimestamps : {<<>>}]
AnswerArgs == {[userQuery |-> UserQuery, hasTs |-> TRUE, relevantTimestamps |-> Timestamps],
               [userQuery |-> UserQuery, hasTs |-> FALSE, relevantTimestamps |-> <<>>]}
RouteArgs == [rephrasedUserQuery : Queries, reasoning : {"why"}]
EmptyArgs == [empty |-> TRUE]

Programs == {"settings", "video", "nav"}

\* tools declared to the model, per example
Registered(p) ==
  CASE p = "settings" -> {"get_current_app_settings", "update_app_settings"}
    [] p = "video" -> {"find_relevant_timestamps", "answer_user_query"}
    [] p = "nav" -> {"find_route"}

\* functionCall parts the model can emit: the declared tools with arguments,
\* and a name that no branch of the dispatch recognises
CallParts(p) ==
  CASE p = "settings" ->
         {CallPart("get_current_app_settings", EmptyArgs)}
         \cup {CallPart("update_app_settings", a) : a \in SettingsArgs}
         \cup {CallPart("bogus_tool", EmptyArgs)}
    [] p = "video" ->
         {CallPart("find_relevant_timestamps", a) : a \in FindTsArgs}
         \cup {CallPart("answer_user_query", a) : a \in AnswerArgs}
         \cup {CallPart("bogus_tool", EmptyArgs)}
    [] p = "nav" ->
         {CallPart("find_route", a) : a \in RouteArgs}
         \cup {CallPart("bogus_tool", EmptyArgs)}

Parts(p) == {TextPart(x) : x \in Texts} \cup CallParts(p)

SeqsUpTo(S, n) == UNION {[1..k -> S] : k \in 0..n}

\* result.response of one round trip: candidates[0].content.parts (an absent
\* candidate or content is the empty list of parts)
Responses(p) == [parts : SeqsUpTo(Parts(p), MaxParts)]
NoResponse == [parts |-> <<>>]

IsCall(part) == part.k = "fc"

\* parts?.filter(part => !!part.functionCall).map(part => part.functionCall)
FunctionCalls(r) == SelectSeq(r.parts, IsCall)

\* parts?.[0]?.functionCall of the navigation loop
HasFirstPartCall(r) == Len(r.parts) > 0 /\ IsCall(r.parts[1])

\* response.text(): the texts of the parts, joined
RECURSIVE JoinText(_)
JoinText(ps) == IF ps = <<>> THEN <<>> ELSE Head(ps).text \o JoinText(Tail(ps))
ResponseText(r) == JoinText(r.parts)

\* ------------------------------------------------------ video tool handlers
TsArray(items) == [t |-> "array", items |-> items]
TsOther(kind) == [t |-> kind, items |-> <<>>]
\* values JSON can put under "timestamps" besides an array: absent, null,
\* the empty string (falsy), a non-empty string (truthy, has no join)
TsFalsy == {"undef", "null", "emptystr"}
TsFields(v) == [timestamps |-> v]
NoTsFields == TsFields(TsOther("undef"))

\* find_relevant_timestamps: parsed.timestamps || [] inside the try block; a
\* transport failure, a text that does not parse, a parsed null (reading a
\* property of null throws) and a truthy non-array (no join method) land in
\* the catch block, which returns the empty list.
find_relevant_timestamps(args, reply) ==
  IF reply.st = "throw" THEN [relevantTimestamps |-> <<>>]
  ELSE LET parsed == JSONParse(reply) IN
       IF ~parsed.ok \/ parsed.shape = "null" THEN [relevantTimestamps |-> <<>>]
       ELSE IF parsed.shape = "primitive" THEN [relevantTimestamps |-> <<>>]
       ELSE IF parsed.f.timestamps.t \in TsFalsy THEN [relevantTimestamps |-> <<>>]
       ELSE IF parsed.f.timestamps.t = "array"
            THEN [relevantTimestamps |-> parsed.f.timestamps.items]
            ELSE [relevantTimestamps |-> <<>>]

Apology == <<"Sorry, I encountered an error analyzing the visual context.">>
AnswerReply(x) == [st |-> "text", text |-> x]
AnswerThrow == [st |-> "throw", text |-> <<>>]

\* mutant: the catch block of answer_user_query returns no apology
answer_user_query_empty(args, reply) == [answerText |-> reply.text]

\* answer_user_query, the try block around the multimodal call: the text of
\* the reply, or the apology when the call throws
answer_user_query(args, reply) ==
  IF reply.st = "throw" THEN [answerText |-> Apology]
  ELSE [answerText |-> reply.text]

\* answer_user_query before its try block: relevantTimestamps.join throws
\* when the request carries no relevantTimestamps, and loadImageBase64
\* rethrows when the storyboard cannot be read
AnswerPreambleThrows(args, imageLoads) == ~args.hasTs \/ ~imageLoads

\* find_route: the placeholder route text built from rephrasedUserQuery
find_route(args) == [routeInfo |-> <<"Route calculation based on", args.rephrasedUserQuery>>]

\* --------------------------------- single-shot replies met inside the loops
ProposalInRange ==
  [StoredSettings EXCEPT !["darkMode"] = JBool(TRUE), !["fontSizeFactor"] = JNum(12)]
ProposalOutOfRange ==
  [StoredSettings EXCEPT !["fontSizeFactor"] = JNum(50),
                         !["notificationVolume"] = JNum(-10),
                         !["textToSpeechRate"] = JNum(3)]
ProposalMissing == [StoredSettings EXCEPT !["fontSizeFactor"] = JUndef]
ProposalNonNumeric == [StoredSettings EXCEPT !["notificationVolume"] = JStr]

LoopSettingsReplies ==
  {Throw(NoSettings), NotJson("not-json", NoSettings), JsonText("null", NoSettings)}
  \cup {JsonText("object", o) :
          o \in {ProposalInRange, ProposalOutOfRange, ProposalMissing, ProposalNonNumeric}}

LoopTsReplies ==
  {Throw(NoTsFields), NotJson("not-json", NoTsFields), JsonText("null", NoTsFields),
   JsonText("primitive", NoTsFields),
   JsonText("object", TsFields(TsArray(Timestamps))),
   JsonText("object", TsFields(TsOther("undef"))),
   JsonText("object", TsFields(TsOther("str")))}

LoopAnswerReplies == {AnswerThrow, AnswerReply(<<"ans">>)}

\* ------------------------------------------------- refineQueryWithContext
JEmptyStr == [t |-> "emptystr", n |-> 0]

\* JavaScript truthiness of a JSON value (the ! tests on parsed fields)
Truthy(v) ==
  CASE v.t = "num" -> v.n # 0
    [] v.t = "bool" -> v.n = 1
    [] v.t = "str" -> TRUE
    [] OTHER -> FALSE

RefineFields(q, r) == [rephrasedQuery |-> q, reason |-> r]
NoRefineFields == RefineFields(JUndef, JUndef)
NullResult == [null |-> TRUE, value |-> NoValue]
Result(v) == [null |-> FALSE, value |-> v]

\* how the response object can fall short of candidates[0].content.parts[0].text
Structures == {"ok", "no-candidates", "no-parts", "no-text", "empty-text"}

\* refineQueryWithContext: null on a transport failure, on an empty
\* response structure, on a missing or empty text, on a parse failure and on
\* a parsed value that is falsy or lacks a truthy rephrasedQuery or reason
RequiredPresent(parsed) ==
  /\ parsed.shape = "object"
  /\ Truthy(parsed.f.rephrasedQuery)
  /\ Truthy(parsed.f.reason)

refineQueryWithContext(struct, reply) ==
  IF reply.st = "throw" THEN NullResult
  ELSE IF struct \in {"no-candidates", "no-parts"} THEN NullResult
  ELSE IF struct \in {"no-text", "empty-text"} \/ reply.kind = "empty" THEN NullResult
  ELSE LET parsed == JSONParse(reply) IN
       IF ~parsed.ok THEN NullResult
       ELSE IF ~RequiredPresent(parsed) THEN NullResult
       ELSE Result(parsed.f)

\* ----------------------------------------------------------- classifyQuery
ListValue(kind, len) == [t |-> kind, len |-> len]
ClassifyFields(r, q) == [response |-> r, query_classification |-> q]
NoClassifyFields == ClassifyFields(ListValue("undef", 0), ListValue("undef", 0))

\* mutant: the length test is missing
IsArrayOnly(v) == v.t = "array"
\* Array.isArray(v) && v.length !== 0
NonEmptyArray(v) == v.t = "array" /\ v.len # 0

\* classifyQuery of src/index.ts: null on a transport failure, on a parse
\* failure, on a falsy parsed value, and when parsed.response is no array or
\* is empty
classifyQuery(reply) ==
  IF reply.st = "throw" THEN NullResult
  ELSE LET parsed == JSONParse(reply) IN
       IF ~parsed.ok THEN NullResult
       ELSE IF parsed.shape = "null" THEN NullResult
       ELSE IF parsed.shape = "primitive" THEN NullResult
       ELSE IF ~NonEmptyArray(parsed.f.response) THEN NullResult
       ELSE Result(parsed.f)


\* classifyQuery of the compiled build: the same steps, but the array it
\* tests is parsedResponse.query_classification
classifyQueryCompiled(reply) ==
  IF reply.st = "throw" THEN NullResult
  ELSE LET parsed == JSONParse(reply) IN
       IF ~parsed.ok THEN NullResult
       ELSE IF parsed.shape = "null" THEN NullResult
       ELSE IF parsed.shape = "primitive" THEN NullResult
       ELSE IF ~NonEmptyArray(parsed.f.query_classification) THEN NullResult
       ELSE Result(parsed.f)

\* ------------------------------------------- exceptions in the validators
\* the first statement of a validator's body that raises, for a given reply:
\* the generateContent call, response.text(), JSON.parse, or a later use of
\* the parsed value (a property of null, an assignment to a primitive in a
\* strict-mode module, join on a non-array)
RaisedAt(fn, struct, reply) ==
  IF reply.st = "throw" THEN "generateContent"
  ELSE IF reply.st = "blocked"
       THEN (IF fn = "refineQueryWithContext" THEN "none" ELSE "response.text")
  ELSE IF fn = "refineQueryWithContext"
          /\ (struct # "ok" \/ reply.kind = "empty") THEN "none"
  ELSE IF ~JSONParse(reply).ok THEN "JSON.parse"
  ELSE CASE fn = "update_app_settings" ->
              IF JSONParse(reply).shape \in {"null", "primitive"} THEN "use" ELSE "none"
         [] fn = "find_relevant_timestamps" ->
              IF \/ JSONParse(reply).shape = "null"
                 \/ /\ JSONParse(reply).shape = "object"
                    /\ JSONParse(reply).f.timestamps.t \notin TsFalsy \cup {"array"}
              THEN "use" ELSE "none"
         [] OTHER -> "none"

\* mutant: only the inner try block is there
EnclosingCatchInnerOnly(fn, site) ==
  IF fn \in {"refineQueryWithContext", "classifyQuery"}
     /\ site \in {"response.text", "JSON.parse", "use"}
  THEN "inner" ELSE "none"
\* the catch block of the innermost try around a statement: update_app_settings
\* and find_relevant_timestamps have one try around everything from the
\* generateContent call on; refineQueryWithContext and classifyQuery have an
\* outer try around the call and the response checks, and an inner try around
\* JSON.parse and the field checks (classifyQuery calls response.text() inside
\* it); their inner catch block lies in the outer try
EnclosingCatch(fn, site) ==
  IF fn \in {"refineQueryWithContext", "classifyQuery"}
  THEN (IF site \in {"response.text", "JSON.parse", "use"} THEN "inner" ELSE "outer")
  ELSE (IF site = "inner-catch" THEN "none" ELSE "catch")

\* a catch block that raises itself: classifyQuery's inner catch logs
\* response.text() again, which throws again when it threw in the try
CatchRaises(fn, block, site) ==
  fn = "classifyQuery" /\ block = "inner" /\ site = "response.text"

\* the exception that leaves the validator: "none" when every exception
\* raised is caught by a block that returns
Escapes(fn, struct, reply) ==
  LET site == RaisedAt(fn, struct, reply)
      block == EnclosingCatch(fn, site)
  IN IF site = "none" THEN "none"
     ELSE IF block = "none" THEN site
     ELSE IF CatchRaises(fn, block, site)
          THEN (IF EnclosingCatch(fn, "inner-catch") = "none" THEN site ELSE "none")
          ELSE "none"

\* ---------------------------------------------------------------- state
VARIABLES
  prog,                  \* which example's main is running
  pc,                    \* position of main
  loopCount,             \* loopCount of the settings and video loops
  result,                \* result.response: the latest reply received
  response,              \* the navigation loop's separate response variable
  completedFunctionCall, \* the navigation loop's exit flag
  currentSettingsData,   \* settings loop: have (null or not), data (the snapshot)
  fnCall,                \* the functionCall selected in the current iteration
  apiResponse,           \* what the handler returned in the current iteration
  exit,                  \* which break left the settings/video loop
  sent,                  \* the turns given to chat.sendMessage, in order (role, tool name)
  lastSent,              \* the latest turn given to chat.sendMessage, in full
  calls,                 \* the handlers invoked, in order (tool name)
  lastCall,              \* the latest handler invocation with its arguments
  out,                   \* what main reported: final answer, unexpected tool, abort, error
  settled,               \* how many awaited chat.sendMessage calls have settled
  finished,              \* how many awaited handler calls have settled
  thrown,                \* how many of them settled by throwing into main
  failure,               \* whether a chat.sendMessage call threw, and what had happened by then
  nested,                \* how the running handler's generateContent call ended
  vpc, vin, vout,        \* single-shot validators run on their own
  vheap,                 \* the objects update_app_settings worked on, after the call
  vexc,                  \* the exception that left the validator ("none" or where it was raised)
  vdist                  \* what the compiled build of classifyQuery returns for the same reply

loopVars == <<prog, pc, loopCount, result, response, completedFunctionCall,
              currentSettingsData, fnCall, apiResponse, exit, sent, lastSent,
              calls, lastCall, out, settled, finished, thrown, failure, nested>>
valVars == <<vpc, vin, vout, vheap, vexc, vdist>>
vars == <<loopVars, valVars>>

Null == [have |-> FALSE, data |-> NoSettings]
NoCall == CallPart("", NoArgs)
Ev(kind, text) == [ev |-> kind, text |-> text]
UserTurn(text) == [role |-> "user", name |-> "", text |-> text, response |-> NoValue]
\* mutant: the function response carries no value
FunctionResponseNoValue(name, value) ==
  [role |-> "function", name |-> name, text |-> "", response |-> NoValue]
FunctionResponse(name, value) ==
  [role |-> "function", name |-> name, text |-> "", response |-> value]
Header(turn) == [role |-> turn.role, name |-> turn.name, text |-> turn.text]
Invocation(name, args) == [name |-> name, args |-> args]

NoFailure == [failed |-> FALSE, sent |-> <<>>, calls |-> <<>>, out |-> <<>>]

ValIdle ==
  /\ vpc = "off" /\ vin = NoValue /\ vout = NoValue /\ vheap = NoValue
  /\ vexc = "none" /\ vdist = NoValue

InitLoop(p) ==
  /\ prog = p
  /\ pc = "start"
  /\ loopCount = 0
  /\ result = NoResponse
  /\ response = NoResponse
  /\ completedFunctionCall = FALSE
  /\ currentSettingsData = Null
  /\ fnCall = NoCall
  /\ apiResponse = NoValue
  /\ exit = "none"
  /\ sent = <<>>
  /\ lastSent = NoValue
  /\ calls = <<>>
  /\ lastCall = NoValue
  /\ out = <<>>
  /\ settled = 0 /\ finished = 0 /\ thrown = 0 /\ failure = NoFailure
  /\ nested = "none"

Init == (\E p \in Programs : InitLoop(p)) /\ ValIdle

\* mutant: each message starts the session afresh
SendReplacing(turn) ==
  /\ sent' = <<[role |-> turn.role, name |-> turn.name, text |-> turn.text]>>
  /\ lastSent' = turn

\* chat.sendMessage(turn): the turn joins the session and the round trip starts
Send(turn) ==
  /\ sent' = Append(sent, Header(turn))
  /\ lastSent' = turn

Invoke(name, args) ==
  /\ calls' = Append(calls, name)
  /\ lastCall' = Invocation(name, args)

Log(events) == out' = out \o events

\* await: main resumes only when the awaited call has settled; replies counts
\* the chat.sendMessage calls, returns the handler calls, that settle in a step
History(replies, returns) ==
  /\ settled' = settled + replies
  /\ finished' = finished + returns
  /\ thrown' = thrown
  /\ failure' = failure

\* the awaited handler call rejects: the exception propagates to main's catch
HandlerThrew ==
  /\ settled' = settled
  /\ finished' = finished + 1
  /\ thrown' = thrown + 1
  /\ failure' = failure

\* the awaited chat.sendMessage call rejects: the exception propagates to
\* main's catch
RoundTripFailed ==
  /\ settled' = settled + 1
  /\ finished' = finished
  /\ thrown' = thrown
  /\ failure' = [failed |-> TRUE, sent |-> sent, calls |-> calls, out |-> out]

\* -------------------------------------------- settings loop and video loop
Looping == prog \in {"settings", "video"}

\* while (loopCount < MAX_LOOPS)
WhileCond(lc) == lc < MAX_LOOPS
\* mutant: the bound check is off by one
BoundReachedLate(lc) == lc > MAX_LOOPS
\* if (loopCount >= MAX_LOOPS), inside the loop after the resubmission and
\* again after the loop
BoundReached(lc) == lc >= MAX_LOOPS

\* mutant: the last functionCall of the response is taken
SelectLastCall(r) == FunctionCalls(r)[Len(FunctionCalls(r))]
\* const fnCall = functionCalls[0]
SelectCall(r) == Head(FunctionCalls(r))

\* let result = await chat.sendMessage(userQuery), loopCount = 0,
\* currentSettingsData = null
SendUserQuery ==
  /\ Looping /\ pc = "start"
  /\ Send(UserTurn(UserQuery))
  /\ pc' = "await"
  /\ UNCHANGED valVars
  /\ History(0, 0)
  /\ UNCHANGED nested
  /\ UNCHANGED <<prog, loopCount, result, response, completedFunctionCall,
                 currentSettingsData, fnCall, apiResponse, exit, calls, lastCall, out>>

\* mutant: the bound is tested only by the while condition, one iteration late
ModelRepliesUnchecked ==
  /\ prog \in {"settings", "video"} /\ pc = "await"
  /\ \E r \in Responses(prog) : result' = r
  /\ IF loopCount <= MAX_LOOPS
     THEN pc' = "loop" /\ exit' = exit
     ELSE pc' = "post" /\ exit' = "while"
  /\ settled' = settled + 1
  /\ UNCHANGED valVars
  /\ UNCHANGED <<prog, loopCount, response, completedFunctionCall,
                 currentSettingsData, fnCall, apiResponse, sent, lastSent,
                 calls, lastCall, out, finished, thrown, failure, nested>>

\* the round trip completes: result is assigned.  After the resubmission of
\* a function response the in-loop bound check runs, then the while test;
\* pc = "loop" is the top of the loop body.
ModelReplies ==
  /\ Looping /\ pc = "await"
  /\ \E r \in Responses(prog) : result' = r
  /\ IF BoundReached(loopCount)
     THEN pc' = "post" /\ exit' = "bound"
     ELSE IF WhileCond(loopCount)
          THEN pc' = "loop" /\ exit' = exit
          ELSE pc' = "post" /\ exit' = "while"
  /\ UNCHANGED valVars
  /\ History(1, 0)
  /\ UNCHANGED nested
  /\ UNCHANGED <<prog, loopCount, response, completedFunctionCall,
                 currentSettingsData, fnCall, apiResponse, sent, lastSent,
                 calls, lastCall, out>>

\* mutant: the rejected round trip is swallowed and the loop carries on with
\* the result it had
ModelFailsSwallowed ==
  /\ prog \in {"settings", "video"} /\ pc = "await"
  /\ pc' = IF loopCount < MAX_LOOPS THEN "loop" ELSE "post"
  /\ settled' = settled + 1
  /\ failure' = [failed |-> TRUE, sent |-> sent, calls |-> calls, out |-> out]
  /\ UNCHANGED valVars
  /\ UNCHANGED <<prog, loopCount, result, response, completedFunctionCall,
                 currentSettingsData, fnCall, apiResponse, exit, sent, lastSent,
                 calls, lastCall, out, finished, thrown, nested>>

\* chat.sendMessage throws inside main's try block
ModelFails ==
  /\ Looping /\ pc = "await"
  /\ pc' = "catch"
  /\ UNCHANGED valVars
  /\ RoundTripFailed
  /\ UNCHANGED nested
  /\ UNCHANGED <<prog, loopCount, result, response, completedFunctionCall,
                 currentSettingsData, fnCall, apiResponse, exit, sent, lastSent,
                 calls, lastCall, out>>

\* mutant: the counter advances by two per iteration
EnterBodyTwice ==
  /\ prog \in {"settings", "video"} /\ pc = "loop"
  /\ loopCount' = loopCount + 2

\* loopCount++ at the top of the body
EnterBody ==
  /\ Looping /\ pc = "loop"
  /\ loopCount' = loopCount + 1

\* mutant: the final answer is printed but the break is missing, so the body
\* goes on to destructure functionCalls[0], which throws
FinalAnswerNoBreak ==
  /\ Looping /\ pc = "loop"
  /\ loopCount' = loopCount + 1
  /\ FunctionCalls(result) = <<>>
  /\ out' = out \o <<[ev |-> "final", text |-> ResponseText(result)]>>
  /\ pc' = "catch" /\ exit' = exit
  /\ UNCHANGED valVars
  /\ History(0, 0)
  /\ UNCHANGED nested
  /\ UNCHANGED <<prog, result, response, completedFunctionCall,
                 currentSettingsData, fnCall, apiResponse, sent, lastSent,
                 calls, lastCall>>

\* no functionCall part: print the final answer and break
FinalAnswer ==
  /\ EnterBody
  /\ FunctionCalls(result) = <<>>
  /\ Log(<<Ev("final", ResponseText(result))>>)
  /\ pc' = "post" /\ exit' = "final"
  /\ UNCHANGED valVars
  /\ History(0, 0)
  /\ UNCHANGED nested
  /\ UNCHANGED <<prog, result, response, completedFunctionCall,
                 currentSettingsData, fnCall, apiResponse, sent, lastSent,
                 calls, lastCall>>

\* name === "get_current_app_settings": the handler runs, its result is
\* stored in currentSettingsData and becomes the function response
DispatchGetSettings ==
  /\ EnterBody /\ prog = "settings"
  /\ FunctionCalls(result) # <<>>
  /\ fnCall' = SelectCall(result)
  /\ fnCall'.name = "get_current_app_settings"
  /\ Invoke(fnCall'.name, EmptyArgs)
  /\ apiResponse' = get_current_app_settings
  /\ currentSettingsData' = [have |-> TRUE, data |-> apiResponse']
  /\ pc' = "respond"
  /\ UNCHANGED valVars
  /\ History(0, 1)
  /\ UNCHANGED nested
  /\ UNCHANGED <<prog, result, response, completedFunctionCall, exit, sent,
                 lastSent, out>>

\* mutant: the arguments of the request are passed on
UpdateToolArgsFromRequest(call, stored) == call.args
\* the arguments main builds for update_app_settings: the stored snapshot
\* and the original user query, not the arguments of the request
UpdateToolArgs(call, stored) ==
  [userRequest |-> UserQuery, currentSettings |-> stored.data]

\* mutant: the check for stored settings is missing
DispatchUpdateSettingsUnchecked ==
  /\ prog = "settings" /\ pc = "loop"
  /\ loopCount' = loopCount + 1
  /\ FunctionCalls(result) # <<>>
  /\ fnCall' = Head(FunctionCalls(result))
  /\ fnCall'.name = "update_app_settings"
  /\ pc' = "handler"
  /\ calls' = Append(calls, "update_app_settings")
  /\ lastCall' = [name |-> "update_app_settings",
                  args |-> [userRequest |-> UserQuery,
                            currentSettings |-> currentSettingsData.data]]
  /\ UNCHANGED valVars
  /\ UNCHANGED <<prog, result, response, completedFunctionCall,
                 currentSettingsData, apiResponse, exit, sent, lastSent, out,
                 settled, finished, thrown, failure, nested>>

\* name === "update_app_settings": throws when no settings were fetched,
\* otherwise the handler starts and waits for its transactional call
DispatchUpdateSettings ==
  /\ EnterBody /\ prog = "settings"
  /\ FunctionCalls(result) # <<>>
  /\ fnCall' = SelectCall(result)
  /\ fnCall'.name = "update_app_settings"
  /\ IF ~currentSettingsData.have
     THEN pc' = "catch" /\ UNCHANGED <<calls, lastCall>>
     ELSE /\ pc' = "handler"
          /\ Invoke(fnCall'.name, UpdateToolArgs(fnCall', currentSettingsData))
  /\ UNCHANGED valVars
  /\ History(0, 0)
  /\ UNCHANGED nested
  /\ UNCHANGED <<prog, result, response, completedFunctionCall,
                 currentSettingsData, apiResponse, exit, sent, lastSent, out>>

\* the arguments the video and navigation handlers are called with: args of
\* the request, cast
RequestArgs(call) == call.args

\* name === "find_relevant_timestamps"
DispatchFindTimestamps ==
  /\ EnterBody /\ prog = "video"
  /\ FunctionCalls(result) # <<>>
  /\ fnCall' = SelectCall(result)
  /\ fnCall'.name = "find_relevant_timestamps"
  /\ Invoke(fnCall'.name, RequestArgs(fnCall'))
  /\ pc' = "handler"
  /\ UNCHANGED valVars
  /\ History(0, 0)
  /\ UNCHANGED nested
  /\ UNCHANGED <<prog, result, response, completedFunctionCall,
                 currentSettingsData, apiResponse, exit, sent, lastSent, out>>

\* name === "answer_user_query": the handler is entered; it throws before
\* its transactional call when the timestamps are missing or the image does
\* not load, and the exception leaves the loop
DispatchAnswerQuery ==
  /\ EnterBody /\ prog = "video"
  /\ FunctionCalls(result) # <<>>
  /\ fnCall' = SelectCall(result)
  /\ fnCall'.name = "answer_user_query"
  /\ Invoke(fnCall'.name, RequestArgs(fnCall'))
  /\ \E imageLoads \in BOOLEAN :
       IF AnswerPreambleThrows(RequestArgs(fnCall'), imageLoads)
       THEN pc' = "catch" /\ HandlerThrew
       ELSE pc' = "handler" /\ History(0, 0)
  /\ UNCHANGED nested
  /\ UNCHANGED valVars
  /\ UNCHANGED <<prog, result, response, completedFunctionCall,
                 currentSettingsData, apiResponse, exit, sent, lastSent, out>>

\* mutant: the unexpected name is reported back to the model and the loop
\* goes on
UnknownToolReported ==
  /\ Looping /\ pc = "loop"
  /\ loopCount' = loopCount + 1
  /\ FunctionCalls(result) # <<>>
  /\ fnCall' = Head(FunctionCalls(result))
  /\ fnCall'.name \notin Registered(prog)
  /\ out' = out \o <<[ev |-> "unexpected", text |-> <<fnCall'.name>>]>>
  /\ apiResponse' = [error |-> "unknown tool"]
  /\ pc' = "respond" /\ exit' = exit
  /\ UNCHANGED valVars
  /\ History(0, 0)
  /\ UNCHANGED nested
  /\ UNCHANGED <<prog, result, response, completedFunctionCall,
                 currentSettingsData, sent, lastSent, calls, lastCall>>

\* else: warn about the unexpected name and break
UnknownTool ==
  /\ EnterBody
  /\ FunctionCalls(result) # <<>>
  /\ fnCall' = SelectCall(result)
  /\ fnCall'.name \notin Registered(prog)
  /\ Log(<<Ev("unexpected", <<fnCall'.name>>)>>)
  /\ pc' = "post" /\ exit' = "unknown"
  /\ UNCHANGED valVars
  /\ History(0, 0)
  /\ UNCHANGED nested
  /\ UNCHANGED <<prog, result, response, completedFunctionCall,
                 currentSettingsData, apiResponse, sent, lastSent, calls,
                 lastCall>>

\* the handler's transactional call completes (or throws) and the handler
\* returns its result
HandlerResult(name, args, reply) ==
  CASE name = "update_app_settings" -> update_app_settings(args.currentSettings, reply)
    [] name = "find_relevant_timestamps" -> find_relevant_timestamps(args, reply)
    [] name = "answer_user_query" -> answer_user_query(args, reply)

HandlerReplies(name) ==
  CASE name = "update_app_settings" -> LoopSettingsReplies
    [] name = "find_relevant_timestamps" -> LoopTsReplies
    [] name = "answer_user_query" -> LoopAnswerReplies

\* mutant: the result of update_app_settings replaces the stored snapshot
HandlerReturnsStoring ==
  /\ prog \in {"settings", "video"} /\ pc = "handler"
  /\ \E reply \in HandlerReplies(lastCall.name) :
       /\ apiResponse' = HandlerResult(lastCall.name, lastCall.args, reply)
       /\ nested' = IF reply.st = "throw" THEN "threw" ELSE "replied"
  /\ currentSettingsData' =
       IF lastCall.name = "update_app_settings"
       THEN [have |-> TRUE, data |-> apiResponse']
       ELSE currentSettingsData
  /\ pc' = "respond"
  /\ settled' = settled /\ finished' = finished + 1
  /\ UNCHANGED <<thrown, failure>>
  /\ UNCHANGED valVars
  /\ UNCHANGED <<prog, loopCount, result, response, completedFunctionCall,
                 fnCall, exit, sent, lastSent, calls, lastCall, out>>

HandlerReturns ==
  /\ Looping /\ pc = "handler"
  /\ \E reply \in HandlerReplies(lastCall.name) :
       /\ apiResponse' = HandlerResult(lastCall.name, lastCall.args, reply)
       /\ nested' = IF reply.st = "throw" THEN "threw" ELSE "replied"
  /\ pc' = "respond"
  /\ UNCHANGED valVars
  /\ History(0, 1)
  /\ UNCHANGED <<prog, loopCount, result, response, completedFunctionCall,
                 currentSettingsData, fnCall, exit, sent, lastSent, calls,
                 lastCall, out>>

\* mutant: the handler call is not awaited, the function response may be
\* sent while the handler is still running
SendFunctionResponseEarly ==
  /\ prog \in {"settings", "video"} /\ pc \in {"handler", "respond"}
  /\ sent' = Append(sent, [role |-> "function", name |-> fnCall.name, text |-> ""])
  /\ lastSent' = [role |-> "function", name |-> fnCall.name, text |-> "",
                  response |-> apiResponse]
  /\ pc' = "await"
  /\ UNCHANGED valVars
  /\ UNCHANGED <<prog, loopCount, result, response, completedFunctionCall,
                 currentSettingsData, fnCall, apiResponse, exit, calls,
                 lastCall, out, settled, finished, thrown, failure, nested>>

\* functionResponsePart = { functionResponse: { name, response: apiResponse } }
\* result = await chat.sendMessage([functionResponsePart])
SendFunctionResponse ==
  /\ Looping /\ pc = "respond"
  /\ Send(FunctionResponse(fnCall.name, apiResponse))
  /\ pc' = "await"
  /\ nested' = "none"
  /\ UNCHANGED valVars
  /\ History(0, 0)
  /\ UNCHANGED <<prog, loopCount, result, response, completedFunctionCall,
                 currentSettingsData, fnCall, apiResponse, exit, calls,
                 lastCall, out>>

\* mutant: the last response text is not shown
AbortReportNoText(lc, r) ==
  IF BoundReached(lc) THEN <<Ev("max-iterations", <<>>)>> ELSE <<>>
\* after the loop: if (loopCount >= MAX_LOOPS) print the abort indicator and
\* the text of the last response when it is not empty
AbortReport(lc, r) ==
  IF BoundReached(lc)
  THEN <<Ev("max-iterations", <<>>)>>
       \o (IF ResponseText(r) # <<>> THEN <<Ev("last", ResponseText(r))>> ELSE <<>>)
  ELSE <<>>

\* mutant: reading the last response after the loop throws
AfterLoopThrows ==
  /\ prog \in {"settings", "video"} /\ pc = "post"
  /\ IF loopCount >= MAX_LOOPS
     THEN pc' = "catch" /\ out' = out \o <<[ev |-> "max-iterations", text |-> <<>>]>>
     ELSE pc' = "done" /\ out' = out
  /\ UNCHANGED valVars
  /\ UNCHANGED <<prog, loopCount, result, response, completedFunctionCall,
                 currentSettingsData, fnCall, apiResponse, exit, sent, lastSent,
                 calls, lastCall, settled, finished, thrown, failure, nested>>

AfterLoop ==
  /\ Looping /\ pc = "post"
  /\ Log(AbortReport(loopCount, result))
  /\ pc' = "done"
  /\ UNCHANGED valVars
  /\ History(0, 0)
  /\ UNCHANGED nested
  /\ UNCHANGED <<prog, loopCount, result, response, completedFunctionCall,
                 currentSettingsData, fnCall, apiResponse, exit, sent, lastSent,
                 calls, lastCall>>

\* mutant: the catch block reports the error and lets the loop send the
\* function response of the failed round
CatchErrorResumes ==
  /\ pc = "catch"
  /\ out' = out \o <<[ev |-> "error", text |-> <<>>]>>
  /\ pc' = IF prog = "nav" THEN "done" ELSE "respond"
  /\ UNCHANGED valVars
  /\ UNCHANGED <<prog, loopCount, result, response, completedFunctionCall,
                 currentSettingsData, fnCall, apiResponse, exit, sent, lastSent,
                 calls, lastCall, settled, finished, thrown, failure, nested>>

\* main's catch block: report the error
CatchError ==
  /\ pc = "catch"
  /\ Log(<<Ev("error", <<>>)>>)
  /\ pc' = "done"
  /\ UNCHANGED valVars
  /\ History(0, 0)
  /\ UNCHANGED nested
  /\ UNCHANGED <<prog, loopCount, result, response, completedFunctionCall,
                 currentSettingsData, fnCall, apiResponse, exit, sent, lastSent,
                 calls, lastCall>>

\* -------------------------------------------------------- navigation loop
Query1 == "Tell me more about the Pacific Science Center accessibility."
Query2 == "Whats the best Ruth to get there"
OkMessage == "Ok. Please help me find it."

OkSent == Cardinality({i \in 1..Len(sent) : sent[i].text = OkMessage})

\* result = await chat.sendMessage(query1)
NavSendQuery1 ==
  /\ prog = "nav" /\ pc = "start"
  /\ Send(UserTurn(Query1))
  /\ pc' = "await1"
  /\ UNCHANGED valVars
  /\ History(0, 0)
  /\ UNCHANGED nested
  /\ UNCHANGED <<prog, loopCount, result, response, completedFunctionCall,
                 currentSettingsData, fnCall, apiResponse, exit, calls, lastCall, out>>

\* response = result.response, then result = await chat.sendMessage(query2_raw)
\* (the intermediate "Assistant:" prints are not part of out)
NavReply1 ==
  /\ prog = "nav" /\ pc = "await1"
  /\ \E r \in Responses(prog) : result' = r
  /\ response' = result'
  /\ Send(UserTurn(Query2))
  /\ pc' = "await2"
  /\ UNCHANGED valVars
  /\ History(1, 0)
  /\ UNCHANGED nested
  /\ UNCHANGED <<prog, loopCount, completedFunctionCall, currentSettingsData,
                 fnCall, apiResponse, exit, calls, lastCall, out>>

\* response = result.response; completedFunctionCall = false
NavReply2 ==
  /\ prog = "nav" /\ pc = "await2"
  /\ \E r \in Responses(prog) : result' = r
  /\ response' = result'
  /\ completedFunctionCall' = FALSE
  /\ pc' = "navloop"
  /\ UNCHANGED valVars
  /\ History(1, 0)
  /\ UNCHANGED nested
  /\ UNCHANGED <<prog, loopCount, currentSettingsData, fnCall, apiResponse,
                 exit, sent, lastSent, calls, lastCall, out>>

\* chat.sendMessage throws inside main's try block
NavModelFails ==
  /\ prog = "nav" /\ pc \in {"await1", "await2", "awaitfr", "awaitok"}
  /\ pc' = "catch"
  /\ UNCHANGED valVars
  /\ RoundTripFailed
  /\ UNCHANGED nested
  /\ UNCHANGED <<prog, loopCount, result, response, completedFunctionCall,
                 currentSettingsData, fnCall, apiResponse, exit, sent, lastSent,
                 calls, lastCall, out>>

\* the response the iteration inspects: the response variable, which the
\* else branch assigns from result before it sends the next message
Inspected(resp, res) == resp

\* if (functionCall), name === "find_route": the handler runs and its result
\* is sent back
NavDispatchFindRoute ==
  /\ prog = "nav" /\ pc = "navloop" /\ ~completedFunctionCall
  /\ HasFirstPartCall(Inspected(response, result))
  /\ fnCall' = Inspected(response, result).parts[1]
  /\ fnCall'.name = "find_route"
  /\ completedFunctionCall' = TRUE
  /\ Invoke(fnCall'.name, RequestArgs(fnCall'))
  /\ apiResponse' = find_route(RequestArgs(fnCall'))
  /\ Send(FunctionResponse("find_route", apiResponse'))
  /\ pc' = "awaitfr"
  /\ UNCHANGED valVars
  /\ History(0, 1)
  /\ UNCHANGED nested
  /\ UNCHANGED <<prog, loopCount, result, response, currentSettingsData,
                 exit, out>>

\* mutant: the unexpected name is warned about, the flag stays unset and the
\* follow-up message is sent, so the loop comes back to the same call
NavUnknownToolIgnored ==
  /\ prog = "nav" /\ pc = "navloop" /\ ~completedFunctionCall
  /\ HasFirstPartCall(response)
  /\ response.parts[1].name # "find_route"
  /\ OkSent < MaxOk
  /\ fnCall' = response.parts[1]
  /\ out' = out \o <<[ev |-> "unexpected", text |-> <<fnCall'.name>>]>>
  /\ sent' = Append(sent, [role |-> "user", name |-> "", text |-> OkMessage])
  /\ lastSent' = [role |-> "user", name |-> "", text |-> OkMessage, response |-> NoValue]
  /\ pc' = "awaitok"
  /\ UNCHANGED valVars
  /\ History(0, 0)
  /\ UNCHANGED nested
  /\ UNCHANGED <<prog, loopCount, result, response, completedFunctionCall,
                 currentSettingsData, apiResponse, exit, calls, lastCall>>

\* if (functionCall), any other name: warn; the flag is set, the loop ends
NavUnknownTool ==
  /\ prog = "nav" /\ pc = "navloop" /\ ~completedFunctionCall
  /\ HasFirstPartCall(Inspected(response, result))
  /\ fnCall' = Inspected(response, result).parts[1]
  /\ fnCall'.name # "find_route"
  /\ completedFunctionCall' = TRUE
  /\ Log(<<Ev("unexpected", <<fnCall'.name>>)>>)
  /\ pc' = "navfinal"
  /\ UNCHANGED valVars
  /\ History(0, 0)
  /\ UNCHANGED nested
  /\ UNCHANGED <<prog, loopCount, result, response, currentSettingsData,
                 apiResponse, exit, sent, lastSent, calls, lastCall>>

\* else: response = result.response; send the follow-up message
NavFollowUp ==
  /\ prog = "nav" /\ pc = "navloop" /\ ~completedFunctionCall
  /\ ~HasFirstPartCall(Inspected(response, result))
  /\ OkSent < MaxOk
  /\ response' = result
  /\ Send(UserTurn(OkMessage))
  /\ pc' = "awaitok"
  /\ UNCHANGED valVars
  /\ History(0, 0)
  /\ UNCHANGED nested
  /\ UNCHANGED <<prog, loopCount, result, completedFunctionCall,
                 currentSettingsData, fnCall, apiResponse, exit, calls, lastCall, out>>

\* the follow-up round trip completes: only result is assigned
NavReplyOk ==
  /\ prog = "nav" /\ pc = "awaitok"
  /\ \E r \in Responses(prog) : result' = r
  /\ pc' = "navloop"
  /\ UNCHANGED valVars
  /\ History(1, 0)
  /\ UNCHANGED nested
  /\ UNCHANGED <<prog, loopCount, response, completedFunctionCall,
                 currentSettingsData, fnCall, apiResponse, exit, sent, lastSent,
                 calls, lastCall, out>>

\* mutant: a functionCall in the reply to the function response clears the
\* flag, so the loop inspects that reply as well
NavReplyFunctionResponseLoops ==
  /\ prog = "nav" /\ pc = "awaitfr"
  /\ \E r \in Responses(prog) : result' = r
  /\ response' = result'
  /\ completedFunctionCall' = ~HasFirstPartCall(result')
  /\ pc' = IF completedFunctionCall' THEN "navfinal" ELSE "navloop"
  /\ settled' = settled + 1
  /\ UNCHANGED valVars
  /\ UNCHANGED <<prog, loopCount, currentSettingsData, fnCall, apiResponse,
                 exit, sent, lastSent, calls, lastCall, out, finished, thrown,
                 failure, nested>>

\* the function-response round trip completes: response = result.response;
\* the flag is set, so the while test ends the loop
NavReplyFunctionResponse ==
  /\ prog = "nav" /\ pc = "awaitfr"
  /\ \E r \in Responses(prog) : result' = r
  /\ response' = result'
  /\ pc' = "navfinal"
  /\ UNCHANGED valVars
  /\ History(1, 0)
  /\ UNCHANGED nested
  /\ UNCHANGED <<prog, loopCount, completedFunctionCall, currentSettingsData,
                 fnCall, apiResponse, exit, sent, lastSent, calls, lastCall, out>>

\* after the loop: responseText = response.text(); print the final response
NavFinalResponse ==
  /\ prog = "nav" /\ pc = "navfinal"
  /\ Log(<<Ev("final", ResponseText(response))>>)
  /\ pc' = "done"
  /\ UNCHANGED valVars
  /\ History(0, 0)
  /\ UNCHANGED nested
  /\ UNCHANGED <<prog, loopCount, result, response, completedFunctionCall,
                 currentSettingsData, fnCall, apiResponse, exit, sent, lastSent,
                 calls, lastCall>>

\* ------------------------------------------------------------ the programs
Next ==
     \/ SendUserQuery
     \/ ModelReplies
     \/ ModelFails
     \/ FinalAnswer
     \/ DispatchGetSettings
     \/ DispatchUpdateSettings
     \/ DispatchFindTimestamps
     \/ DispatchAnswerQuery
     \/ UnknownTool
     \/ HandlerReturns
     \/ SendFunctionResponse
     \/ AfterLoop
     \/ CatchError
     \/ NavSendQuery1
     \/ NavReply1
     \/ NavReply2
     \/ NavModelFails
     \/ NavDispatchFindRoute
     \/ NavUnknownTool
     \/ NavFollowUp
     \/ NavReplyOk
     \/ NavReplyFunctionResponse
     \/ NavFinalResponse

Spec == Init /\ [][Next]_vars

\* ------------------------------------------- the validators run on their own
\* inputs: each validator with a reply of its single-shot call
NumGrid == (-MaxV .. MaxV) \cup {50}
FieldValues == {JNum(k) : k \in NumGrid} \cup {JUndef, JNull, JStr, JBool(TRUE), JBool(FALSE)}
OtherSettings ==
  [StoredSettings EXCEPT !["darkMode"] = JBool(TRUE), !["fontSizeFactor"] = JNum(15)]
Proposals ==
  {[StoredSettings EXCEPT ![k] = v] : k \in SettingKeys, v \in FieldValues}
  \cup {ProposalOutOfRange, NoSettings}
SettingsReplies ==
  {Throw(NoSettings), JsonText("null", NoSettings), JsonText("primitive", NoSettings)}
  \cup {NotJson(k, NoSettings) : k \in NotJsonKinds}
  \cup {JsonText("object", o) : o \in Proposals}

TsValues == {TsArray(<<>>), TsArray(Timestamps)} \cup {TsOther(k) : k \in TsFalsy \cup {"str"}}
TsReplies ==
  {Throw(NoTsFields), JsonText("null", NoTsFields), JsonText("primitive", NoTsFields)}
  \cup {NotJson(k, NoTsFields) : k \in NotJsonKinds}
  \cup {JsonText("object", TsFields(v)) : v \in TsValues}

StringValues == {JStr, JEmptyStr, JUndef, JNull, JNum(0), JNum(5)}
RefineReplies ==
  {Throw(NoRefineFields), JsonText("null", NoRefineFields),
   JsonText("primitive", NoRefineFields)}
  \cup {NotJson(k, NoRefineFields) : k \in NotJsonKinds}
  \cup {JsonText("object", RefineFields(q, r)) : q \in StringValues, r \in StringValues}

ListValues == {ListValue("array", 0), ListValue("array", 1), ListValue("array", 2),
               ListValue("undef", 0), ListValue("null", 0), ListValue("str", 0)}
ClassifyReplies ==
  {Throw(NoClassifyFields), Blocked(NoClassifyFields),
   JsonText("null", NoClassifyFields), JsonText("primitive", NoClassifyFields)}
  \cup {NotJson(k, NoClassifyFields) : k \in NotJsonKinds}
  \cup {JsonText("object", ClassifyFields(r, q)) : r \in ListValues, q \in ListValues}

Input(fn, given, struct, reply) ==
  [fn |-> fn, given |-> given, struct |-> struct, reply |-> reply]

ValInputs ==
  {Input("update_app_settings", c, "ok", r) :
     c \in {StoredSettings, OtherSettings}, r \in SettingsReplies}
  \cup {Input("find_relevant_timestamps", a, "ok", r) : a \in FindTsArgs, r \in TsReplies}
  \cup {Input("refineQueryWithContext", NoValue, st, r) : st \in Structures, r \in RefineReplies}
  \cup {Input("classifyQuery", NoValue, "ok", r) : r \in ClassifyReplies}

LoopIdle ==
  /\ prog = "none" /\ pc = "off" /\ loopCount = 0
  /\ result = NoResponse /\ response = NoResponse
  /\ completedFunctionCall = FALSE /\ currentSettingsData = Null
  /\ fnCall = NoCall /\ apiResponse = NoValue /\ exit = "none"
  /\ sent = <<>> /\ lastSent = NoValue /\ calls = <<>> /\ lastCall = NoValue
  /\ out = <<>>
  /\ settled = 0 /\ finished = 0 /\ thrown = 0 /\ failure = NoFailure
  /\ nested = "none"

InitVal ==
  /\ LoopIdle /\ vpc = "ready" /\ vin \in ValInputs /\ vout = NoValue
  /\ vheap = NoValue /\ vexc = "none" /\ vdist = NoValue

\* the call is over: v is what the validator's return statements produce, and
\* vexc tells whether an exception left it instead
Returns(v) ==
  /\ vout' = v
  /\ vexc' = Escapes(vin.fn, vin.struct, vin.reply)
  /\ vpc' = "returned"
  /\ UNCHANGED <<vin, loopVars>>

CallUpdateAppSettings ==
  /\ vpc = "ready" /\ vin.fn = "update_app_settings"
  /\ Returns(Result(update_app_settings(vin.given, vin.reply)))
  /\ vheap' = update_app_settings_objects(vin.given, vin.reply)
  /\ UNCHANGED vdist

CallFindRelevantTimestamps ==
  /\ vpc = "ready" /\ vin.fn = "find_relevant_timestamps"
  /\ Returns(Result(find_relevant_timestamps(vin.given, vin.reply)))
  /\ UNCHANGED <<vheap, vdist>>

CallRefineQueryWithContext ==
  /\ vpc = "ready" /\ vin.fn = "refineQueryWithContext"
  /\ Returns(refineQueryWithContext(vin.struct, vin.reply))
  /\ UNCHANGED <<vheap, vdist>>

\* the source and the compiled build are both run on the reply
CallClassifyQuery ==
  /\ vpc = "ready" /\ vin.fn = "classifyQuery"
  /\ Returns(classifyQuery(vin.reply))
  /\ vdist' = classifyQueryCompiled(vin.reply)
  /\ UNCHANGED vheap

NextVal ==
  \/ CallUpdateAppSettings
  \/ CallFindRelevantTimestamps
  \/ CallRefineQueryWithContext
  \/ CallClassifyQuery

SpecVal == InitVal /\ [][NextVal]_vars

\* ================================================================ claims
HasEvent(kind) == \E i \in 1..Len(out) : out[i].ev = kind
LastTextReport(r) ==
  IF ResponseText(r) # <<>> THEN <<Ev("last", ResponseText(r))>> ELSE <<>>

\* the first response has arrived, it carries no functionCall, and the loop
\* body is about to run for the first time
FirstResponseWithoutCall ==
  /\ Looping /\ pc = "loop" /\ loopCount = 0
  /\ FunctionCalls(result) = <<>>
NavFirstResponseWithoutCall ==
  /\ prog = "nav" /\ pc = "navloop" /\ ~completedFunctionCall
  /\ Len(sent) = 2
  /\ FunctionCalls(response) = <<>>

\* C1 (as amended): in the settings loop and the video loop, a first response
\* without a tool call ends the loop in that first iteration: the step taken
\* prints exactly the text of that response as the final answer, invokes no
\* handler and sends nothing, and the interaction ends with one turn sent, no
\* handler invoked and that final answer as its only report.
C1_FirstRoundFinal ==
  /\ [][FirstResponseWithoutCall =>
          /\ pc' = "post"
          /\ out' = <<Ev("final", ResponseText(result))>>
          /\ sent' = sent /\ calls' = <<>>]_vars
  /\ [](Looping /\ loopCount = 1 /\ pc \in {"post", "done"}
         /\ FunctionCalls(result) = <<>>
        => /\ Len(sent) = 1 /\ calls = <<>>
           /\ out = <<Ev("final", ResponseText(result))>>)

C1_Witness ==
  /\ prog = "video" /\ pc = "done" /\ loopCount = 1
  /\ Len(sent) = 1 /\ calls = <<>>
  /\ out = <<Ev("final", <<"t1", "t2">>)>>

\* C1 (original): in every loop, the navigation loop included, the step
\* taken on a first response without a tool call sends no further message,
\* invokes no handler and prints that response's text as the final answer.
C1_EveryLoop ==
  [][(FirstResponseWithoutCall \/ NavFirstResponseWithoutCall) =>
       /\ sent' = sent /\ calls' = calls
       /\ out' = <<Ev("final", ResponseText(IF prog = "nav" THEN response ELSE result))>>]_vars

\* C2: in the settings and video loops loopCount starts at 0, never
\* decreases and stays within 0..MAX_LOOPS; an interaction whose loop was
\* left by the bound ends having reported the maximum-iterations indicator
\* followed by the text of the last response (when there is one), not an error.
C2_CounterBounded ==
  /\ [](Looping => loopCount \in 0..5)
  /\ [](Looping /\ pc = "start" => loopCount = 0)
  /\ [][loopCount' >= loopCount]_vars
  /\ [](Looping /\ pc = "done" /\ exit \in {"bound", "while"}
        => out = <<Ev("max-iterations", <<>>)>> \o LastTextReport(result))

C2_Witness ==
  /\ prog = "settings" /\ pc = "done" /\ exit = "bound" /\ loopCount = 5
  /\ out = <<Ev("max-iterations", <<>>), Ev("last", <<"t2">>)>>

AboutToDispatch(name) ==
  \/ /\ Looping /\ pc = "loop"
     /\ FunctionCalls(result) # <<>>
     /\ Head(FunctionCalls(result)).name = name
  \/ /\ prog = "nav" /\ pc = "navloop" /\ ~completedFunctionCall
     /\ Len(response.parts) > 0 /\ response.parts[1].k = "fc"
     /\ response.parts[1].name = name
SelectedArgs ==
  IF prog = "nav" THEN response.parts[1].args ELSE Head(FunctionCalls(result)).args
InvokedWith(name, args) ==
  /\ calls' = Append(calls, name)
  /\ lastCall' = [name |-> name, args |-> args]

\* C4 (as amended): a handler is invoked only by the iteration that selected
\* its call, at most once per iteration.  find_relevant_timestamps,
\* answer_user_query and find_route are invoked exactly once with the
\* arguments of the request; get_current_app_settings is invoked exactly
\* once (it takes no arguments); update_app_settings is invoked exactly once
\* when settings were fetched earlier, and then with the stored snapshot and
\* the original user query, and is not invoked at all (main throws)
\* when they were not.
C4_HandlerInvocation ==
  /\ [][\A name \in {"find_relevant_timestamps", "answer_user_query", "find_route"} :
          AboutToDispatch(name) => InvokedWith(name, SelectedArgs)]_vars
  /\ [][AboutToDispatch("get_current_app_settings") =>
          calls' = Append(calls, "get_current_app_settings")]_vars
  /\ [][AboutToDispatch("update_app_settings") =>
          IF currentSettingsData.have
          THEN InvokedWith("update_app_settings",
                           [userRequest |-> UserQuery,
                            currentSettings |-> currentSettingsData.data])
          ELSE calls' = calls /\ pc' = "catch"]_vars
  /\ [][calls' # calls =>
          /\ pc \in {"loop", "navloop"}
          /\ Len(calls') = Len(calls) + 1]_vars
  /\ [](Looping => Len(calls) <= loopCount)

C4_Witness ==
  /\ prog = "video" /\ pc = "handler"
  /\ lastCall = [name |-> "answer_user_query", args |-> fnCall.args]
  /\ fnCall.args.relevantTimestamps = Timestamps
  /\ calls = <<"find_relevant_timestamps", "answer_user_query">>

\* C4 (original): whenever the selected call names a registered tool, its
\* handler is invoked in that step with exactly the arguments of the request
\* (update_app_settings included).
C4_ArgumentsVerbatim ==
  [][\A name \in Registered(prog) :
       AboutToDispatch(name) =>
         /\ calls' = Append(calls, name)
         /\ lastCall'.args = SelectedArgs]_vars

Clamped(lo, hi, v) == IF v < lo THEN lo ELSE IF v > hi THEN hi ELSE v

\* C6: for a reply that parses to an object, every ranged setting that
\* carries a number v comes back as min if v < min, max if v > max and v
\* otherwise (fontSizeFactor 0.8..2.0, notificationVolume 0.0..1.0,
\* textToSpeechRate 0.5..2.0, in tenths).
C6_ClampNumeric ==
  (vpc = "returned" /\ vin.fn = "update_app_settings"
     /\ vin.reply.st = "text" /\ vin.reply.kind = "json" /\ vin.reply.shape = "object")
  => LET p == vin.reply.f
         r == vout.value
     IN /\ p["fontSizeFactor"].t = "num" =>
             r["fontSizeFactor"] = [t |-> "num", n |-> Clamped(8, 20, p["fontSizeFactor"].n)]
        /\ p["notificationVolume"].t = "num" =>
             r["notificationVolume"] = [t |-> "num", n |-> Clamped(0, 10, p["notificationVolume"].n)]
        /\ p["textToSpeechRate"].t = "num" =>
             r["textToSpeechRate"] = [t |-> "num", n |-> Clamped(5, 20, p["textToSpeechRate"].n)]

C6_Witness ==
  /\ vpc = "returned" /\ vin.fn = "update_app_settings"
  /\ vin.reply.kind = "json" /\ vin.reply.shape = "object"
  /\ vin.reply.f["fontSizeFactor"] = [t |-> "num", n |-> 50]
  /\ vin.reply.f["notificationVolume"] = [t |-> "num", n |-> -10]
  /\ vout.value["fontSizeFactor"] = [t |-> "num", n |-> 20]
  /\ vout.value["notificationVolume"] = [t |-> "num", n |-> 0]

\* C7: a reply that parses to an object lacking a required field makes the
\* validator return its fallback: update_app_settings the currentSettings it
\* was given when any of the eight keys is absent, refineQueryWithContext
\* null when rephrasedQuery or reason is absent.
C7_MissingRequiredFallsBack ==
  (vpc = "returned" /\ vin.reply.st = "text" /\ vin.reply.kind = "json"
     /\ vin.reply.shape = "object")
  => /\ (vin.fn = "update_app_settings"
          /\ \E k \in SettingKeys : vin.reply.f[k].t = "undef")
        => vout = [null |-> FALSE, value |-> vin.given]
     /\ (vin.fn = "refineQueryWithContext" /\ vin.struct = "ok"
          /\ (vin.reply.f.rephrasedQuery.t = "undef" \/ vin.reply.f.reason.t = "undef"))
        => vout.null

\* the three ranged settings of an object lie in their ranges
InRanges(o) ==
  /\ o["fontSizeFactor"].t = "num" /\ o["fontSizeFactor"].n \in 8..20
  /\ o["notificationVolume"].t = "num" /\ o["notificationVolume"].n \in 0..10
  /\ o["textToSpeechRate"].t = "num" /\ o["textToSpeechRate"].n \in 5..20

\* C8: every settings object sent to the model as the result of
\* update_app_settings has its three ranged settings inside their ranges.
C8_SentSettingsInRange ==
  (prog = "settings" /\ sent # <<>> /\ lastSent.role = "function"
     /\ lastSent.name = "update_app_settings")
  => InRanges(lastSent.response)

\* C9: the maximum-iterations indicator is reported only when the loop was
\* left by the bound check that follows a processed tool call, and never
\* together with a final answer or an unexpected-tool warning.
C9_AbortOnlyByBound ==
  (Looping /\ HasEvent("max-iterations"))
  => exit = "bound" /\ ~HasEvent("final") /\ ~HasEvent("unexpected")

\* an outcome has been decided or reported
Terminal == out # <<>> \/ pc \in {"post", "catch", "navfinal", "done"}

\* C10: once an interaction has reached a terminal outcome (final answer,
\* abort by the bound, unexpected tool, caught failure) no handler is
\* invoked and no message is sent any more, and it stays terminal.
C10_TerminalIsFinal ==
  [][Terminal => (sent' = sent /\ calls' = calls /\ Terminal')]_vars

C10_Witness ==
  /\ prog = "nav" /\ pc = "done"
  /\ out = <<Ev("unexpected", <<"bogus_tool">>), Ev("final", <<"t1">>)>>
  /\ Len(sent) = 2 /\ calls = <<>>

\* the call the current iteration selects names no registered tool
SelectedUnregistered ==
  \/ /\ Looping /\ pc = "loop"
     /\ FunctionCalls(result) # <<>>
     /\ Head(FunctionCalls(result)).name \notin Registered(prog)
  \/ /\ prog = "nav" /\ pc = "navloop" /\ ~completedFunctionCall
     /\ Len(response.parts) > 0 /\ response.parts[1].k = "fc"
     /\ response.parts[1].name \notin Registered(prog)
SelectedName ==
  IF prog = "nav" THEN response.parts[1].name ELSE Head(FunctionCalls(result)).name

\* C11: when the selected call names a tool that is not registered, the step
\* taken warns about the name, invokes no handler, sends nothing and leaves
\* the loop; once the warning is out no handler is invoked and no message is
\* sent for the rest of the interaction (the call is never retried).
C11_UnknownToolStops ==
  /\ [][SelectedUnregistered =>
          /\ sent' = sent /\ calls' = calls
          /\ out' = Append(out, Ev("unexpected", <<SelectedName>>))
          /\ pc' \in {"post", "navfinal"}]_vars
  /\ [][HasEvent("unexpected") => (sent' = sent /\ calls' = calls)]_vars

C11_Witness ==
  /\ prog = "settings" /\ pc = "done"
  /\ out = <<Ev("unexpected", <<"bogus_tool">>)>>
  /\ calls = <<"get_current_app_settings">> /\ Len(sent) = 2
  /\ fnCall.name = "bogus_tool"

\* C12: an interaction that ended after an unexpected tool name or after a
\* caught failure (a handler failure included) has reported that error and
\* has reported neither a final answer nor the maximum-iterations abort.
C12_ErrorOutcomeOnly ==
  (pc = "done" /\ (HasEvent("unexpected") \/ HasEvent("error")))
  => ~HasEvent("final") /\ ~HasEvent("max-iterations")

\* C13 (as amended): in the settings and video loops every turn after the
\* user query is a function turn named after the handler invoked in its
\* round and carrying what that handler returned; each iteration starts with
\* one such turn per earlier round; a round whose dispatch fails (unexpected
\* name, or an exception leaving the dispatch) appends no turn at all.
C13_ToolTurnPerDispatch ==
  /\ [](Looping =>
          /\ Len(sent) <= Len(calls) + 1
          /\ \A i \in 2..Len(sent) :
                sent[i] = [role |-> "function", name |-> calls[i-1], text |-> ""]
          /\ (pc = "loop" => Len(sent) = 1 + loopCount /\ Len(calls) = loopCount)
          /\ (pc = "await" /\ Len(sent) > 1 =>
                /\ lastSent.response = apiResponse /\ apiResponse # NoValue
                /\ (lastSent.name = "get_current_app_settings"
                      => lastSent.response = currentSettingsData.data))
          /\ (exit = "unknown" => Len(sent) = loopCount))
  /\ [][Looping /\ pc = "loop" /\ pc' \in {"catch", "post"} => sent' = sent]_vars

C13_Witness ==
  /\ prog = "video" /\ pc = "await" /\ loopCount = 2
  /\ calls = <<"find_relevant_timestamps", "answer_user_query">>
  /\ Len(sent) = 3
  /\ lastSent = [role |-> "function", name |-> "answer_user_query", text |-> "",
                 response |-> [answerText |-> <<"ans">>]]

\* C13 (original): every round that reached dispatch has appended one tool
\* turn, a round stopped by an unexpected tool name included (its error
\* payload): a loop left by the bound or by an unexpected name has sent the
\* user query and one tool turn per round.
C13_ErrorPayloadAppended ==
  (Looping /\ pc = "done" /\ exit \in {"bound", "unknown"})
  => /\ Len(sent) = 1 + loopCount
     /\ lastSent.role = "function" /\ lastSent.name = fnCall.name

\* the tool call a loop selects from a response: the first functionCall part
\* (settings, video), the functionCall of the first part (navigation)
LatestCall(r) ==
  IF prog = "nav"
  THEN IF HasFirstPartCall(r) THEN r.parts[1] ELSE NoCall
  ELSE IF FunctionCalls(r) # <<>> THEN Head(FunctionCalls(r)) ELSE NoCall

\* C14: in every loop, when the latest response of the model carries a call
\* of a registered tool, the next message sent is the function response for
\* that call: same tool name, the value the handler returned for it, and no
\* user message in between.
C14_RequestThenResult ==
  [][(sent' # sent /\ LatestCall(result).name \in Registered(prog)) =>
       /\ lastSent'.role = "function"
       /\ lastSent'.name = LatestCall(result).name
       /\ fnCall' = LatestCall(result)
       /\ lastSent'.response = apiResponse']_vars

\* round trips and handler calls that have started and not yet settled
OutstandingRoundTrips == Len(sent) - settled
RunningHandlers == Len(calls) - finished

\* C15: at most one conversational round trip is outstanding and at most one
\* handler is running, never both at once; a message is sent only when every
\* earlier round trip has settled and every handler invoked so far (the one
\* whose result is being sent included) has returned; a handler is invoked
\* only when no round trip is outstanding and no other handler is running.
C15_OneAtATime ==
  /\ [](/\ OutstandingRoundTrips \in {0, 1}
        /\ RunningHandlers \in {0, 1}
        /\ OutstandingRoundTrips + RunningHandlers <= 1)
  /\ [][sent' # sent => (settled' = Len(sent) /\ finished' = Len(calls'))]_vars
  /\ [][calls' # calls => (settled = Len(sent) /\ finished = Len(calls))]_vars

C15_Witness ==
  /\ prog = "video" /\ pc = "handler"
  /\ lastCall.name = "answer_user_query"
  /\ RunningHandlers = 1 /\ OutstandingRoundTrips = 0
  /\ Len(sent) = 2 /\ finished = 1

\* the response of the current round carries several functionCall parts
SeveralCalls == Len(FunctionCalls(result)) >= 2
\* the current round is over (or waits for the reply to its function
\* response) and result is still the response that round worked on
RoundOver ==
  /\ Looping /\ loopCount >= 1 /\ exit # "bound"
  /\ pc \in {"await", "catch", "post", "done"}

\* C16 (as amended): in the settings and video loops a handler is invoked
\* only for the first functionCall of the response of the current round, at
\* most one per round; when that handler has returned, exactly one function
\* response, named after that first call, is sent for the round; the other
\* calls of the response are never dispatched.  When the first call is not a
\* registered tool or its dispatch throws, no function response is sent.
C16_FirstCallOnly ==
  /\ [][Looping /\ calls' # calls =>
          /\ pc = "loop"
          /\ calls' = Append(calls, Head(FunctionCalls(result)).name)
          /\ fnCall' = Head(FunctionCalls(result))]_vars
  /\ [](Looping => Len(calls) <= loopCount /\ Len(sent) <= 1 + Len(calls))
  /\ [](RoundOver /\ SeveralCalls =>
          IF pc = "await"
          THEN /\ Len(sent) = 1 + loopCount /\ Len(calls) = loopCount
               /\ lastSent.name = Head(FunctionCalls(result)).name
          ELSE IF exit = "unknown"
               THEN Len(sent) = loopCount /\ Len(calls) = loopCount - 1
               ELSE pc = "catch" \/ HasEvent("error"))

C16_Witness ==
  /\ prog = "settings" /\ pc = "await" /\ loopCount = 1
  /\ Len(result.parts) = 2
  /\ result.parts[1] = CallPart("get_current_app_settings", EmptyArgs)
  /\ result.parts[2].name = "update_app_settings"
  /\ calls = <<"get_current_app_settings">>
  /\ Len(sent) = 2
  /\ lastSent.name = "get_current_app_settings"

\* C16 (original): every round whose response carries several calls ends
\* with exactly one function response sent, that of the first call.
C16_OneResponsePerRound ==
  (RoundOver /\ SeveralCalls)
  => /\ Len(sent) = 1 + loopCount
     /\ lastSent.name = Head(FunctionCalls(result)).name

\* C17: an exception that leaves the dispatch (update_app_settings asked for
\* without stored settings, answer_user_query failing before its try block)
\* sends no function response for the failed call; from main's catch block
\* the only step is the error report, which changes neither the messages
\* sent nor the handlers invoked, and after it nothing happens any more.
C17_HandlerFailureTerminates ==
  /\ [][Looping /\ pc = "loop" /\ pc' = "catch" =>
          /\ fnCall'.name \in {"update_app_settings", "answer_user_query"}
          /\ sent' = sent /\ out' = out]_vars
  /\ [][pc = "catch" =>
          /\ pc' = "done" /\ out' = <<Ev("error", <<>>)>>
          /\ sent' = sent /\ calls' = calls /\ loopCount' = loopCount]_vars
  /\ [][pc # "done"]_vars

C17_Witness ==
  /\ prog = "video" /\ pc = "done" /\ loopCount = 2
  /\ out = <<Ev("error", <<>>)>>
  /\ calls = <<"find_relevant_timestamps", "answer_user_query">>
  /\ finished = 2 /\ Len(sent) = 2
  /\ lastSent.name = "find_relevant_timestamps"

\* C18: a handler whose generateContent call threw returns its fallback
\* (update_app_settings the settings it was given, find_relevant_timestamps
\* the empty list, answer_user_query the apology); a running handler always
\* hands a value back to the loop, never an exception, and the loop sends
\* that value to the model as the function response and waits for the reply.
C18_NestedFailureFallsBack ==
  /\ [](Looping /\ pc = "respond" /\ nested = "threw" =>
          CASE lastCall.name = "update_app_settings" ->
                 apiResponse = lastCall.args.currentSettings
                 /\ apiResponse = currentSettingsData.data
            [] lastCall.name = "find_relevant_timestamps" ->
                 apiResponse = [relevantTimestamps |-> <<>>]
            [] lastCall.name = "answer_user_query" ->
                 apiResponse = [answerText |->
                   <<"Sorry, I encountered an error analyzing the visual context.">>])
  /\ [][pc = "handler" => (pc' = "respond" /\ out' = out /\ nested' # "none")]_vars
  /\ [][pc = "respond" /\ nested = "threw" =>
          /\ pc' = "await"
          /\ lastSent' = [role |-> "function", name |-> lastCall.name, text |-> "",
                          response |-> apiResponse]
          /\ Len(sent') = Len(sent) + 1 /\ out' = out]_vars

C18_Witness ==
  /\ prog = "video" /\ pc = "loop" /\ loopCount = 2 /\ out = <<>>
  /\ calls = <<"find_relevant_timestamps", "answer_user_query">>
  /\ lastSent.name = "answer_user_query"
  /\ lastSent.response =
       [answerText |-> <<"Sorry, I encountered an error analyzing the visual context.">>]

\* C19: the session starts empty and every step either leaves the turns
\* submitted so far as they are or appends the one turn being sent, keeping
\* every earlier turn in its place; in the settings and video loops the
\* turns are the user query followed by function turns only.
C19_SessionAppendOnly ==
  /\ [][\/ sent' = sent
        \/ /\ Len(sent') = Len(sent) + 1
           /\ \A i \in 1..Len(sent) : sent'[i] = sent[i]
           /\ sent'[Len(sent')] =
                [role |-> lastSent'.role, name |-> lastSent'.name, text |-> lastSent'.text]]_vars
  /\ [](pc = "start" => sent = <<>>)
  /\ [](Looping /\ sent # <<>> =>
          /\ sent[1] = [role |-> "user", name |-> "", text |-> "q"]
          /\ \A i \in 2..Len(sent) : sent[i].role = "function" /\ sent[i].text = "")

C19_Witness ==
  /\ prog = "settings" /\ pc = "await"
  /\ sent = <<[role |-> "user", name |-> "", text |-> "q"],
              [role |-> "function", name |-> "get_current_app_settings", text |-> ""],
              [role |-> "function", name |-> "update_app_settings", text |-> ""]>>

\* C20: every loop makes a bounded number of model round trips: no more
\* than its opening user turns (one in the settings and video loops, two in
\* the navigation loop) and one per iteration, MAX_LOOPS iterations at most.
C20_BoundedRoundTrips ==
  Len(sent) <= (IF prog = "nav" THEN 2 ELSE 1) + 5

\* C21: an interaction whose loop was left by the bound has received the
\* reply to its last function response, reports the maximum-iterations
\* indicator first and then, when that latest reply has text, exactly that
\* text, and reports no error.
C21_AbortSurfacesLastText ==
  (Looping /\ pc = "done" /\ exit = "bound")
  => /\ settled = Len(sent) /\ lastSent.role = "function"
     /\ out # <<>> /\ out[1] = Ev("max-iterations", <<>>)
     /\ ~HasEvent("error")
     /\ IF JoinText(result.parts) = <<>>
        THEN Len(out) = 1
        ELSE Len(out) = 2 /\ out[2] = Ev("last", JoinText(result.parts))

C21_Witness ==
  /\ prog = "settings" /\ pc = "done" /\ exit = "bound"
  /\ result.parts = <<TextPart(<<"t2">>), TextPart(<<"t1">>)>>
  /\ out = <<Ev("max-iterations", <<>>), Ev("last", <<"t2", "t1">>)>>

\* the settings loop has received three replies: the first two made it
\* invoke the read handler and then the update handler, the third carries
\* no functionCall
ReadUpdateText ==
  /\ prog = "settings" /\ settled = 3
  /\ calls = <<"get_current_app_settings", "update_app_settings">>
  /\ FunctionCalls(result) = <<>>

\* C22: in that interaction each handler has run once and returned, the
\* third iteration prints the text of the third reply as the final answer
\* and ends the loop with loopCount = 3, and nothing else is reported (no
\* abort indicator, no error).
C22_ReadUpdateAnswer ==
  ReadUpdateText =>
    /\ finished = 2 /\ Len(sent) = 3
    /\ pc \in {"loop", "post", "done"}
    /\ (pc = "loop" => loopCount = 2 /\ out = <<>>)
    /\ (pc # "loop" =>
          /\ loopCount = 3 /\ exit = "final"
          /\ out = <<Ev("final", JoinText(result.parts))>>)

C22_Witness ==
  /\ ReadUpdateText /\ pc = "done" /\ loopCount = 3
  /\ lastSent.name = "update_app_settings"
  /\ lastSent.response["darkMode"] = JBool(TRUE)
  /\ out = <<Ev("final", <<"t1">>)>>

\* C24: whenever an iteration of the navigation loop is about to look for a
\* tool call, the response it inspects is the latest response received.
C24_InspectsLatestResponse ==
  (prog = "nav" /\ pc = "navloop" /\ ~completedFunctionCall)
  => Inspected(response, result) = result

\* C25: in the settings loop every invocation of update_app_settings comes
\* after an invocation of get_current_app_settings; when the first response
\* asks for update_app_settings the interaction goes to main's catch block
\* with no handler invoked and only the user query sent, and ends with the
\* error report alone.
C25_UpdateNeedsRead ==
  prog = "settings" =>
    /\ \A i \in 1..Len(calls) :
          calls[i] = "update_app_settings"
          => \E j \in 1..(i - 1) : calls[j] = "get_current_app_settings"
    /\ (loopCount = 1 /\ fnCall.name = "update_app_settings" =>
          /\ pc \in {"catch", "done"}
          /\ calls = <<>> /\ Len(sent) = 1
          /\ out = IF pc = "done" THEN <<Ev("error", <<>>)>> ELSE <<>>)

C25_Witness ==
  /\ prog = "settings" /\ pc = "done" /\ loopCount = 1
  /\ fnCall.name = "update_app_settings"
  /\ calls = <<>> /\ Len(sent) = 1 /\ lastSent.role = "user"
  /\ out = <<Ev("error", <<>>)>>

\* C26: in the settings loop the stored snapshot is null until
\* get_current_app_settings has been dispatched and from then on is what
\* that handler returned, whatever update_app_settings returned since; every
\* invocation of update_app_settings receives that snapshot and the original
\* user query.
C26_SnapshotFromReadOnly ==
  prog = "settings" =>
    /\ currentSettingsData.have
         = (\E i \in 1..Len(calls) : calls[i] = "get_current_app_settings")
    /\ currentSettingsData.data
         = IF currentSettingsData.have THEN get_current_app_settings ELSE NoSettings
    /\ (calls # <<>> /\ lastCall.name = "update_app_settings" =>
          lastCall.args = [userRequest |-> "q",
                           currentSettings |-> get_current_app_settings])

C26_Witness ==
  /\ prog = "settings" /\ pc = "handler" /\ loopCount = 3
  /\ calls = <<"get_current_app_settings", "update_app_settings", "update_app_settings">>
  /\ apiResponse["darkMode"] = JBool(TRUE) /\ apiResponse["fontSizeFactor"] = JNum(12)
  /\ lastCall.args.currentSettings["darkMode"] = JBool(FALSE)
  /\ lastCall.args.currentSettings["fontSizeFactor"] = JNum(10)

\* C27: when update_app_settings has returned, the currentSettings object
\* holds what it held when it was passed in; after a reply that parses to an
\* object the value returned is the other object, the parsed proposal with
\* its ranged values clamped; after any other reply, or a failed call, the
\* object returned is currentSettings itself, unmodified.
C27_CurrentSettingsUntouched ==
  (vpc = "returned" /\ vin.fn = "update_app_settings")
  => /\ vheap.currentSettings = vin.given
     /\ vout.value = vheap[vheap.returned]
     /\ IF vin.reply.st = "text" /\ vin.reply.kind = "json" /\ vin.reply.shape = "object"
        THEN vheap.returned = "proposedSettings"
        ELSE vheap.returned = "currentSettings" /\ vout.value = vin.given

C27_Witness ==
  /\ vpc = "returned" /\ vin.fn = "update_app_settings"
  /\ vin.given = OtherSettings
  /\ vin.reply.st = "text" /\ vin.reply.kind = "json" /\ vin.reply.shape = "object"
  /\ vin.reply.f["fontSizeFactor"] = JNum(50)
  /\ vout.value["fontSizeFactor"] = JNum(20)
  /\ vheap.currentSettings["fontSizeFactor"] = JNum(15)

\* handler invocations that returned to main
HandlersReturned == finished - thrown

\* C28: in the settings and video loops at most five handlers are invoked
\* and at most six messages are sent; the messages sent are the user query
\* plus one function response per handler invocation that returned (the
\* response of the invocation that has just returned is the next thing
\* sent); once the reply to the fifth function response has arrived the loop
\* is over, whatever that reply contains, and no sixth handler is invoked.
C28_CallsAndMessagesBounded ==
  Looping
  => /\ Len(calls) <= 5
     /\ Len(sent) <= 6
     /\ HandlersReturned <= Len(calls)
     /\ Len(sent) = (IF pc = "start" THEN 0 ELSE 1) + HandlersReturned
                    - (IF pc = "respond" THEN 1 ELSE 0)
     /\ (pc = "done" => Len(sent) = 1 + HandlersReturned)
     /\ (Len(sent) = 6 /\ settled = 6
           => pc \in {"post", "done", "catch"} /\ Len(calls) = 5)

C28_Witness ==
  /\ Looping /\ pc = "done" /\ exit = "bound"
  /\ FunctionCalls(result) # <<>>
  /\ Len(calls) = 5 /\ HandlersReturned = 5 /\ Len(sent) = 6 /\ settled = 6

\* C29: once a chat.sendMessage call of the settings, video or navigation
\* loop has thrown, main is in its error handler or has finished: no handler
\* has been invoked and no message sent since the failure, and what main
\* reported is what it had reported before plus, at the end, the error;
\* neither a final answer nor the abort indicator nor a last text is among it.
C29_RoundTripFailureEnds ==
  failure.failed
  => /\ pc \in {"catch", "done"}
     /\ sent = failure.sent
     /\ calls = failure.calls
     /\ settled = Len(sent) /\ finished = Len(calls)
     /\ out = failure.out \o (IF pc = "done" THEN <<Ev("error", <<>>)>> ELSE <<>>)
     /\ ~HasEvent("final") /\ ~HasEvent("max-iterations") /\ ~HasEvent("last")

C29_Witness ==
  /\ failure.failed /\ prog = "nav" /\ pc = "done"
  /\ calls = <<"find_route">> /\ lastSent.role = "function"
  /\ out = <<Ev("error", <<>>)>>

\* function responses among the messages sent
FunctionResponsesSent == {i \in 1..Len(sent) : sent[i].role = "function"}

\* C30: in the navigation loop find_route is the only handler invoked, and
\* at most once; once a tool call has been detected the loop is left (the
\* function response is the last message sent, no follow-up comes after it);
\* a tool call in the first part of the reply to the find_route result is not
\* dispatched; a detected call with another name is reported and ends the
\* loop with no handler invoked and no function response sent.
C30_FindRouteAtMostOnce ==
  prog = "nav"
  => /\ Len(calls) <= 1
     /\ \A i \in 1..Len(calls) : calls[i] = "find_route"
     /\ (calls # <<>> => completedFunctionCall)
     /\ (completedFunctionCall
          => /\ pc \in {"awaitfr", "navfinal", "catch", "done"}
             /\ IF HasEvent("unexpected")
                THEN calls = <<>> /\ FunctionResponsesSent = {}
                ELSE /\ calls = <<"find_route">>
                     /\ FunctionResponsesSent = {Len(sent)})
     /\ (~completedFunctionCall => calls = <<>> /\ FunctionResponsesSent = {})

C30_Witness ==
  /\ prog = "nav" /\ pc = "done"
  /\ calls = <<"find_route">>
  /\ HasFirstPartCall(result) /\ response = result
  /\ result.parts[1].name = "find_route"
  /\ HasEvent("final")

C30_WitnessUnknown ==
  /\ prog = "nav" /\ pc = "done"
  /\ HasEvent("unexpected") /\ calls = <<>>

\* C31: refineQueryWithContext lets no exception out; when it returns a
\* non-null result the response had a first part with a non-empty text that
\* is the JSON text of an object whose rephrasedQuery and reason are both
\* present and non-empty, and the result is that object; on a transport
\* failure, missing candidates or parts, a missing or empty text, a text
\* that does not parse, and a missing or empty field it returns null.
C31_RefineNullUnlessComplete ==
  (vpc = "returned" /\ vin.fn = "refineQueryWithContext")
  => /\ vexc = "none"
     /\ (~vout.null
          => /\ vin.reply.st = "text" /\ vin.struct = "ok"
             /\ vin.reply.kind = "json" /\ vin.reply.shape = "object"
             /\ vin.reply.f.rephrasedQuery.t \notin {"undef", "null", "emptystr"}
             /\ vin.reply.f.reason.t \notin {"undef", "null", "emptystr"}
             /\ vout.value = vin.reply.f)
     /\ ((\/ vin.reply.st = "throw"
          \/ vin.struct \in {"no-candidates", "no-parts", "no-text", "empty-text"}
          \/ vin.reply.kind \in {"not-json", "empty", "truncated"}
          \/ vin.reply.f.rephrasedQuery.t \in {"undef", "emptystr"}
          \/ vin.reply.f.reason.t \in {"undef", "emptystr"})
          => vout.null)

C31_Witness ==
  /\ vpc = "returned" /\ vin.fn = "refineQueryWithContext"
  /\ vin.struct = "ok" /\ vin.reply.kind = "json" /\ vin.reply.shape = "object"
  /\ vin.reply.f.rephrasedQuery.t = "str" /\ vin.reply.f.reason.t = "str"
  /\ ~vout.null /\ vout.value = vin.reply.f

C31_WitnessFailure ==
  /\ vpc = "returned" /\ vin.fn = "refineQueryWithContext"
  /\ vin.reply.st = "throw" /\ vout.null /\ vexc = "none"

\* C32: classifyQuery lets no exception out; every non-null result it
\* returns is the parsed object and has an array with at least one element
\* in its response field; it returns null on a transport failure, on a text
\* that does not parse, and when the response field is no array or is an
\* empty array.
C32_ClassifyNonEmptyOrNull ==
  (vpc = "returned" /\ vin.fn = "classifyQuery")
  => /\ vexc = "none"
     /\ (~vout.null
          => /\ vout.value.response.t = "array" /\ vout.value.response.len >= 1
             /\ vin.reply.st = "text" /\ vin.reply.kind = "json"
             /\ vout.value = vin.reply.f)
     /\ ((\/ vin.reply.st \in {"throw", "blocked"}
          \/ vin.reply.kind \in {"not-json", "empty", "truncated"}
          \/ vin.reply.f.response.t # "array"
          \/ vin.reply.f.response.len = 0)
          => vout.null)

C32_Witness ==
  /\ vpc = "returned" /\ vin.fn = "classifyQuery"
  /\ vin.reply.kind = "json" /\ vin.reply.shape = "object"
  /\ vin.reply.f.response = [t |-> "array", len |-> 2]
  /\ ~vout.null /\ vout.value.response.len = 2

C32_WitnessEmpty ==
  /\ vpc = "returned" /\ vin.fn = "classifyQuery"
  /\ vin.reply.kind = "json" /\ vin.reply.shape = "object"
  /\ vin.reply.f.response = [t |-> "array", len |-> 0]
  /\ vout.null

\* C33: for every raw model text the source and the compiled build of
\* classifyQuery both return null or both return a non-null result.
C33_BuildsAgreeOnAcceptance ==
  (vpc = "returned" /\ vin.fn = "classifyQuery") => (vout.null <=> vdist.null)

\* a reply of the form {response: [non-empty list]} without a top-level
\* query_classification: the source returns it, the compiled build null
C33_Disagreement ==
  /\ vpc = "returned" /\ vin.fn = "classifyQuery"
  /\ vin.reply.kind = "json" /\ vin.reply.shape = "object"
  /\ vin.reply.f.response = [t |-> "array", len |-> 1]
  /\ vin.reply.f.query_classification.t = "undef"
  /\ ~vout.null /\ vdist.null

\* C34: the clamp of update_app_settings is idempotent and keeps values
\* that are in range: for a reply that parses to an object, running
\* update_app_settings again on the settings it returned gives, for every
\* ranged setting that carried a number, the same value; and a ranged
\* setting whose number lies in [min, max], the endpoints included
\* (fontSizeFactor 0.8..2.0, notificationVolume 0.0..1.0, textToSpeechRate
\* 0.5..2.0, in tenths), comes back unchanged.
C34_ClampIdempotent ==
  (vpc = "returned" /\ vin.fn = "update_app_settings"
     /\ vin.reply.st = "text" /\ vin.reply.kind = "json" /\ vin.reply.shape = "object")
  => LET p == vin.reply.f
         once == vout.value
         twice == update_app_settings(vin.given,
                    [st |-> "text", kind |-> "json", shape |-> "object", f |-> once])
     IN /\ \A k \in {"fontSizeFactor", "notificationVolume", "textToSpeechRate"} :
             p[k].t = "num" => (once[k].t = "num" /\ twice[k] = once[k])
        /\ (p["fontSizeFactor"].t = "num" /\ p["fontSizeFactor"].n \in 8..20)
             => once["fontSizeFactor"] = p["fontSizeFactor"]
        /\ (p["notificationVolume"].t = "num" /\ p["notificationVolume"].n \in 0..10)
             => once["notificationVolume"] = p["notificationVolume"]
        /\ (p["textToSpeechRate"].t = "num" /\ p["textToSpeechRate"].n \in 5..20)
             => once["textToSpeechRate"] = p["textToSpeechRate"]

C34_Witness ==
  /\ vpc = "returned" /\ vin.fn = "update_app_settings"
  /\ vin.reply.st = "text" /\ vin.reply.kind = "json" /\ vin.reply.shape = "object"
  /\ vin.reply.f["textToSpeechRate"] = [t |-> "num", n |-> 5]
  /\ vout.value["textToSpeechRate"] = [t |-> "num", n |-> 5]

C34_WitnessReclamped ==
  /\ vpc = "returned" /\ vin.fn = "update_app_settings"
  /\ vin.reply.st = "text" /\ vin.reply.kind = "json" /\ vin.reply.shape = "object"
  /\ vin.reply.f["notificationVolume"] = [t |-> "num", n |-> 22]
  /\ vout.value["notificationVolume"] = [t |-> "num", n |-> 10]

====
